---- MODULE Spec2Model ----
(***************************************************************************)
(* Model of mustang_align.MustangAnalyzer: the all-vs-all batch            *)
(* (run_all_vs_all), the worker boundary (_process_pair) and the           *)
(* per-pair pipeline (_run_mustang) over a shared output directory.        *)
(*                                                                         *)
(* One job is one element of itertools.product(pdb_files, repeat=2).  A    *)
(* job's position inside _run_mustang is its status:                       *)
(*   Pending    queued in the pool, not yet taken by a worker              *)
(*   Invoked    subprocess.run has started the external process           *)
(*   Exited     the process returned exit status 0 (line 140 completed)    *)
(*   MoveFasta  the os.path.exists test of line 144 was true               *)
(*   MovePdb    shutil.move of line 147 completed                          *)
(*   Succeeded  _run_mustang returned True                                 *)
(*   Failed     _process_pair returned False                               *)
(***************************************************************************)
EXTENDS Integers, Sequences, FiniteSets, TLC

\* Bounds of the model.
MaxFiles == 2
MaxCpuCount == 2

\* Stems of the *.pdb files an input directory may hold.
Stems == {"a", "b", "a_a"}
\* Values of the alignment_format argument.
Formats == {"fasta", "pir"}
\* Values of the cpu_percentage argument.
Percentages == {25, 100}
\* Values of the mode argument of mustang_analysis.
Modes == {"all_vs_all", "pdb_vs_pdb", "invalid"}
\* Shapes of the input_path argument of mustang_analysis: a Path to a
\* directory, a Path to nothing, a list of Paths.
InputShapes == {"dir", "missing dir", "list"}

VARIABLES
    batch,             \* position of the run: "called" (in mustang_analysis),
                       \* "start" (run_all_vs_all entered), "start pair"
                       \* (run_pdb_vs_pdb entered), "running", "returned"
    mode,              \* the mode argument
    input_path,        \* the shape of the input_path argument
    pdb_files,         \* list(input_dir.glob('*.pdb')): stems in listing order
                       \* (for a list input_path: the stems of its Paths)
    pairs,             \* list(itertools.product(pdb_files, repeat=2))
    alignment_format,  \* self.alignment_format
    cpu_cores,         \* self.cpu_cores
    toolExists,        \* whether self.mustang_path names an executable
    poolCreated,       \* whether Pool(processes=...) was constructed
    status,            \* per job: position in _run_mustang
    cause,             \* per job: which error was logged for it
    outcome,           \* per job: what the external process did
    staging,           \* files directly under output_dir
    fasta_dir,         \* files under output_dir/pairwise_fastas
    pdb_dir,           \* files under output_dir/pdb_outputs
    results,           \* list collected from imap_unordered, completion order
    warnings,          \* logging.warning records of run_all_vs_all
    raised             \* exception that escaped run_all_vs_all, or "none"

vars == <<batch, mode, input_path, pdb_files, pairs, alignment_format, cpu_cores, toolExists,
          poolCreated, status, cause, outcome, staging, fasta_dir, pdb_dir,
          results, warnings, raised>>

config == <<mode, input_path, pdb_files, alignment_format, cpu_cores, toolExists>>

Max(a, b) == IF a >= b THEN a ELSE b

\* max(1, int(cpu_count() * (cpu_percentage / 100)))
CpuCores(count, pct) == Max(1, (count * pct) \div 100)

\* 'afasta' if alignment_format == 'fasta' else alignment_format
output_extension(fmt) == IF fmt = "fasta" THEN "afasta" ELSE fmt

\* itertools.permutations(files, 2) in place of product: no self-pairs.
Product_permutations(files) ==
    LET n == Len(files)
        all == [k \in 1..(n * n) |-> <<files[((k - 1) \div n) + 1], files[((k - 1) % n) + 1]>>]
    IN  SelectSeq(all, LAMBDA p : p[1] # p[2])

\* itertools.product(files, repeat=2), in its generation order
Product(files) ==
    LET n == Len(files)
    IN  [k \in 1..(n * n) |-> <<files[((k - 1) \div n) + 1], files[((k - 1) % n) + 1]>>]

\* f"{pdb_files[0].stem}_{pdb_files[1].stem}"
output_identifier(p) == p[1] \o "_" \o p[2]

\* f"{output_identifier}.{self.output_extension}"
expected_afasta(p) == output_identifier(p) \o "." \o output_extension(alignment_format)

\* f"{output_identifier}.pdb"
expected_pdb(p) == output_identifier(p) \o ".pdb"

\* fasta_output_dir / f"{stem0}_{stem1}.fasta"
fasta_dest(p) == p[1] \o "_" \o p[2] \o ".fasta"

\* pdb_output_dir / f"{stem0}_{stem1}.pdb"
pdb_dest(p) == p[1] \o "_" \o p[2] \o ".pdb"

\* Sequences without repetition over Stems, of length at most MaxFiles:
\* the listings a directory of distinct file names can produce.
Listings ==
    {s \in UNION {[1..n -> Stems] : n \in 0..MaxFiles} :
        \A i, j \in DOMAIN s : i # j => s[i] # s[j]}

\* What one run of the external process can do: its exit status and which
\* of its two output files it wrote under the output stem.
ToolOutcomes == [exit : {0, 1}, aln : BOOLEAN, pdb : BOOLEAN]

NoOutcome == [exit |-> -1, aln |-> FALSE, pdb |-> FALSE]

Jobs == DOMAIN pairs

Terminal == {"Succeeded", "Failed"}

\* Jobs a worker is executing.
Active == {k \in Jobs : status[k] \notin Terminal \cup {"Pending"}}

\* The analyzer is constructed and run_all_vs_all is called on a directory.
Init ==
    /\ batch = "start"
    /\ mode = "all_vs_all"
    /\ input_path = "dir"
    /\ pdb_files \in Listings
    /\ pairs = <<>>
    /\ alignment_format \in Formats
    /\ \E count \in 1..MaxCpuCount, pct \in Percentages : cpu_cores = CpuCores(count, pct)
    /\ toolExists \in BOOLEAN
    /\ poolCreated = FALSE
    /\ status = <<>>
    /\ cause = <<>>
    /\ outcome = <<>>
    /\ staging = {}
    /\ fasta_dir = {}
    /\ pdb_dir = {}
    /\ results = <<>>
    /\ warnings = {}
    /\ raised = "none"

\* run_all_vs_all without the early return of lines 60-62.
RunAllVsAll_noEmptyCheck ==
    /\ batch = "start"
    /\ pairs' = Product(pdb_files)
    /\ poolCreated' = TRUE
    /\ status' = [k \in DOMAIN Product(pdb_files) |-> "Pending"]
    /\ cause' = [k \in DOMAIN Product(pdb_files) |-> "none"]
    /\ outcome' = [k \in DOMAIN Product(pdb_files) |-> NoOutcome]
    /\ batch' = "running"
    /\ UNCHANGED <<config, staging, fasta_dir, pdb_dir, results, warnings, raised>>

\* run_all_vs_all up to the construction of the pool (lines 53-66).
RunAllVsAll ==
    /\ batch = "start"
    /\ IF pdb_files = <<>>
       THEN /\ warnings' = warnings \cup {"No PDB files found"}
            /\ batch' = "returned"
            /\ UNCHANGED <<pairs, poolCreated, status, cause, outcome>>
       ELSE /\ pairs' = Product(pdb_files)
            /\ poolCreated' = TRUE
            /\ status' = [k \in DOMAIN Product(pdb_files) |-> "Pending"]
            /\ cause' = [k \in DOMAIN Product(pdb_files) |-> "none"]
            /\ outcome' = [k \in DOMAIN Product(pdb_files) |-> NoOutcome]
            /\ batch' = "running"
            /\ UNCHANGED warnings
    /\ UNCHANGED <<config, staging, fasta_dir, pdb_dir, results, raised>>

\* Pool(processes=self.cpu_cores): a task starts only on an idle worker.
WorkerIdle_unbounded == TRUE

WorkerIdle == Cardinality(Active) < cpu_cores

\* A failed job is put back on the queue for another worker.
Fail_requeue(k, why) ==
    /\ status' = [status EXCEPT ![k] = "Pending"]
    /\ cause' = [cause EXCEPT ![k] = why]
    /\ UNCHANGED results

\* _process_pair without its try/except: the worker yields no result.
Fail_propagates(k, why) ==
    /\ status' = [status EXCEPT ![k] = "Failed"]
    /\ cause' = [cause EXCEPT ![k] = why]
    /\ UNCHANGED results

\* _process_pair's except clause: the error is logged, the job returns False.
Fail(k, why) ==
    /\ status' = [status EXCEPT ![k] = "Failed"]
    /\ cause' = [cause EXCEPT ![k] = why]
    /\ results' = Append(results, FALSE)

\* The pool hands the next queued task to an idle worker, which calls
\* subprocess.run: the process starts.
Invoke(k) ==
    /\ batch = "running"
    /\ status[k] = "Pending"
    /\ \A i \in Jobs : i < k => status[i] # "Pending"
    /\ WorkerIdle
    /\ toolExists
    /\ status' = [status EXCEPT ![k] = "Invoked"]
    /\ UNCHANGED <<batch, config, pairs, poolCreated, cause, outcome, staging,
                   fasta_dir, pdb_dir, results, warnings, raised>>

\* The missing executable handled by the CalledProcessError clause instead.
InvokeMissing_asToolFailure(k) ==
    /\ batch = "running"
    /\ status[k] = "Pending"
    /\ \A i \in Jobs : i < k => status[i] # "Pending"
    /\ WorkerIdle
    /\ ~toolExists
    /\ Fail(k, "MUSTANG failed")
    /\ UNCHANGED <<batch, config, pairs, poolCreated, outcome, staging,
                   fasta_dir, pdb_dir, warnings, raised>>

\* As Invoke, but the executable is missing: subprocess.run raises
\* FileNotFoundError, line 162 raises MustangError, line 110 catches it.
InvokeMissing(k) ==
    /\ batch = "running"
    /\ status[k] = "Pending"
    /\ \A i \in Jobs : i < k => status[i] # "Pending"
    /\ WorkerIdle
    /\ ~toolExists
    /\ Fail(k, "executable not found")
    /\ UNCHANGED <<batch, config, pairs, poolCreated, outcome, staging,
                   fasta_dir, pdb_dir, warnings, raised>>

\* Files the external process leaves under the output stem.
Written(p, o) ==
    (IF o.aln THEN {expected_afasta(p)} ELSE {}) \cup
    (IF o.pdb THEN {expected_pdb(p)} ELSE {})

\* subprocess.run without check=True: a non-zero exit status raises nothing.
ToolExit_noCheck(k, o) ==
    /\ batch = "running"
    /\ status[k] = "Invoked"
    /\ outcome' = [outcome EXCEPT ![k] = o]
    /\ staging' = staging \cup Written(pairs[k], o)
    /\ status' = [status EXCEPT ![k] = "Exited"]
    /\ UNCHANGED <<batch, config, pairs, poolCreated, fasta_dir, pdb_dir,
                   cause, results, warnings, raised>>

\* The external process ends (line 140 returns or raises CalledProcessError).
ToolExit(k, o) ==
    /\ batch = "running"
    /\ status[k] = "Invoked"
    /\ outcome' = [outcome EXCEPT ![k] = o]
    /\ staging' = staging \cup Written(pairs[k], o)
    /\ IF o.exit = 0
       THEN /\ status' = [status EXCEPT ![k] = "Exited"]
            /\ UNCHANGED <<cause, results>>
       ELSE Fail(k, "MUSTANG failed")
    /\ UNCHANGED <<batch, config, pairs, poolCreated, fasta_dir, pdb_dir,
                   warnings, raised>>

\* os.path.exists(expected_afasta) and os.path.exists(expected_pdb)
BothExist(p) == expected_afasta(p) \in staging /\ expected_pdb(p) \in staging

\* The else branch of line 154 runs the external tool a second time.
CheckOutputs_retry(k) ==
    /\ batch = "running"
    /\ status[k] = "Exited"
    /\ status' = [status EXCEPT ![k] = IF BothExist(pairs[k]) THEN "MoveFasta" ELSE "Invoked"]
    /\ UNCHANGED <<batch, config, pairs, poolCreated, outcome, staging,
                   fasta_dir, pdb_dir, cause, results, warnings, raised>>

\* The test of line 144 and its else branch.
CheckOutputs(k) ==
    /\ batch = "running"
    /\ status[k] = "Exited"
    /\ IF BothExist(pairs[k])
       THEN /\ status' = [status EXCEPT ![k] = "MoveFasta"]
            /\ UNCHANGED <<cause, results>>
       ELSE Fail(k, "expected output files missing")
    /\ UNCHANGED <<batch, config, pairs, poolCreated, outcome, staging,
                   fasta_dir, pdb_dir, warnings, raised>>

\* shutil.move(expected_afasta, fasta_dest); a vanished source raises
\* FileNotFoundError, which line 161 turns into MustangError.
MoveFasta(k) ==
    /\ batch = "running"
    /\ status[k] = "MoveFasta"
    /\ IF expected_afasta(pairs[k]) \in staging
       THEN /\ staging' = staging \ {expected_afasta(pairs[k])}
            /\ fasta_dir' = fasta_dir \cup {fasta_dest(pairs[k])}
            /\ status' = [status EXCEPT ![k] = "MovePdb"]
            /\ UNCHANGED <<cause, results>>
       ELSE /\ Fail(k, "executable not found")
            /\ UNCHANGED <<staging, fasta_dir>>
    /\ UNCHANGED <<batch, config, pairs, poolCreated, outcome, pdb_dir,
                   warnings, raised>>

\* shutil.move(expected_pdb, pdb_dest); return True
MovePdb(k) ==
    /\ batch = "running"
    /\ status[k] = "MovePdb"
    /\ IF expected_pdb(pairs[k]) \in staging
       THEN /\ staging' = staging \ {expected_pdb(pairs[k])}
            /\ pdb_dir' = pdb_dir \cup {pdb_dest(pairs[k])}
            /\ status' = [status EXCEPT ![k] = "Succeeded"]
            /\ results' = Append(results, TRUE)
            /\ UNCHANGED cause
       ELSE /\ Fail(k, "executable not found")
            /\ UNCHANGED <<staging, pdb_dir>>
    /\ UNCHANGED <<batch, config, pairs, poolCreated, outcome, fasta_dir,
                   warnings, raised>>

\* The result iterator is not drained by list(...): the with block ends,
\* and terminates the pool, as soon as the first result is in.
Return_noDrain ==
    /\ batch = "running"
    /\ Len(results) >= 1
    /\ batch' = "returned"
    /\ UNCHANGED <<config, pairs, poolCreated, status, cause, outcome, staging,
                   fasta_dir, pdb_dir, results, warnings, raised>>

\* list(...) has drawn every result; the with block closes the pool and
\* run_all_vs_all returns.
Return ==
    /\ batch = "running"
    /\ Len(results) = Len(pairs)
    /\ batch' = "returned"
    /\ UNCHANGED <<config, pairs, poolCreated, status, cause, outcome, staging,
                   fasta_dir, pdb_dir, results, warnings, raised>>

Next ==
    \/ RunAllVsAll
    \/ \E k \in Jobs : Invoke(k)
    \/ \E k \in Jobs : InvokeMissing(k)
    \/ \E k \in Jobs, o \in ToolOutcomes : ToolExit(k, o)
    \/ \E k \in Jobs : CheckOutputs(k)
    \/ \E k \in Jobs : MoveFasta(k)
    \/ \E k \in Jobs : MovePdb(k)
    \/ Return

Spec == Init /\ [][Next]_vars

\* The worker processes keep running and every external process ends:
\* whatever step is possible is eventually taken.
FairSpec == Spec /\ WF_vars(Next)

\* Lists of one or two Paths given as input_path.
PathLists == UNION {[1..n -> Stems] : n \in 1..2}

\* mustang_analysis is called (line 164); the analyzer is constructed.
InitAnalysis ==
    /\ batch = "called"
    /\ mode \in Modes
    /\ input_path \in InputShapes
    /\ pdb_files \in (CASE input_path = "dir" -> Listings
                        [] input_path = "missing dir" -> {<<>>}
                        [] input_path = "list" -> PathLists)
    /\ pairs = <<>>
    /\ alignment_format \in Formats
    /\ \E count \in 1..MaxCpuCount, pct \in Percentages : cpu_cores = CpuCores(count, pct)
    /\ toolExists \in BOOLEAN
    /\ poolCreated = FALSE
    /\ status = <<>>
    /\ cause = <<>>
    /\ outcome = <<>>
    /\ staging = {}
    /\ fasta_dir = {}
    /\ pdb_dir = {}
    /\ results = <<>>
    /\ warnings = {}
    /\ raised = "none"

\* isinstance(input_path, Path)
IsPath == input_path \in {"dir", "missing dir"}

\* isinstance(input_path, list) and len(input_path) == 2
IsListOfTwo == input_path = "list" /\ Len(pdb_files) = 2

\* The dispatch of mustang_analysis (lines 178-187).
MustangAnalysis ==
    /\ batch = "called"
    /\ IF mode = "all_vs_all"
       THEN IF IsPath
            THEN batch' = "start" /\ UNCHANGED raised
            ELSE batch' = "returned" /\ raised' = "ValueError"
       ELSE IF mode = "pdb_vs_pdb"
            THEN IF IsListOfTwo
                 THEN batch' = "start pair" /\ UNCHANGED raised
                 ELSE batch' = "returned" /\ raised' = "ValueError"
            ELSE batch' = "returned" /\ raised' = "ValueError"
    /\ UNCHANGED <<config, pairs, poolCreated, status, cause, outcome, staging,
                   fasta_dir, pdb_dir, results, warnings>>

\* run_pdb_vs_pdb: one _process_pair call in the caller's process.
RunPdbVsPdb ==
    /\ batch = "start pair"
    /\ pairs' = <<<<pdb_files[1], pdb_files[2]>>>>
    /\ status' = <<"Pending">>
    /\ cause' = <<"none">>
    /\ outcome' = <<NoOutcome>>
    /\ batch' = "running"
    /\ UNCHANGED <<config, poolCreated, staging, fasta_dir, pdb_dir, results,
                   warnings, raised>>

NextAnalysis ==
    \/ MustangAnalysis
    \/ RunPdbVsPdb
    \/ Next

AnalysisSpec == InitAnalysis /\ [][NextAnalysis]_vars

(***************************************************************************)
(* Properties                                                              *)
(***************************************************************************)

\* Stems of the listing.
Inputs == {pdb_files[i] : i \in DOMAIN pdb_files}

Count(S) == Cardinality(S)

\* C1: once run_all_vs_all has built its task list from a listing of N >= 1
\* files, the submitted jobs are exactly the ordered pairs over the inputs:
\* N*N entries, no pair twice, every (i, j) present, self-pairs included.
C1_JobsAreAllOrderedPairs ==
    (batch # "start" /\ pdb_files # <<>>) =>
        /\ Len(pairs) = Len(pdb_files) * Len(pdb_files)
        /\ \A i, j \in Jobs : i # j => pairs[i] # pairs[j]
        /\ {pairs[k] : k \in Jobs} = Inputs \X Inputs
        /\ \A s \in Inputs : Count({k \in Jobs : pairs[k] = <<s, s>>}) = 1

C1_Witness ==
    /\ batch = "running"
    /\ Len(pdb_files) = 2
    /\ \E i, j \in Jobs : pairs[i][1] # pairs[i][2] /\ pairs[j] = <<pairs[i][2], pairs[i][1]>>

\* C2: at every moment of a batch the number of jobs whose external process
\* has been started and that are not yet terminal is at most cpu_cores.
C2_ActiveAtMostCpuCores ==
    Count({k \in Jobs : status[k] \notin {"Pending", "Succeeded", "Failed"}}) <= cpu_cores

C2_Witness ==
    /\ cpu_cores = 2
    /\ Count({k \in Jobs : status[k] = "Invoked"}) = 2
    /\ \E k \in Jobs : status[k] = "Pending"
    /\ \E k \in Jobs : status[k] \in Terminal

\* The external process exited 0 and wrote both of its files.
ToolOk(k) == outcome[k] = [exit |-> 0, aln |-> TRUE, pdb |-> TRUE]

Succeeded == {k \in Jobs : status[k] = "Succeeded"}

\* C3: in a finished batch in which some job's process exited non-zero, that
\* job is Failed and every job whose process exited 0 and wrote both files is
\* Succeeded with both canonical files present; with N = 2 and exactly one
\* failing job among otherwise good runs, 3 of the 4 jobs succeed.
C3_FailureIsolated ==
    (batch = "returned" /\ \E f \in Jobs : outcome[f].exit = 1) =>
        /\ \A k \in Jobs : outcome[k].exit = 1 => status[k] = "Failed"
        /\ \A k \in Jobs : ToolOk(k) =>
              /\ status[k] = "Succeeded"
              /\ fasta_dest(pairs[k]) \in fasta_dir
              /\ pdb_dest(pairs[k]) \in pdb_dir
        /\ (Len(pairs) = 4 /\ Count({k \in Jobs : ToolOk(k)}) = 3) => Count(Succeeded) = 3

\* C4: with the executable missing, the first job to hit the error aborts the
\* batch: no more jobs than the workers already hold leave Pending, and the
\* MustangError reaches the caller of run_all_vs_all.
C4_MissingToolAborts ==
    ~toolExists =>
        /\ Count({k \in Jobs : status[k] # "Pending"}) <= cpu_cores
        /\ (batch = "returned" /\ pdb_files # <<>>) => raised = "MustangError"

\* C5: with the executable missing, a batch that ran to its end has every
\* job Failed with the cause "executable not found"; at no time is a job
\* Succeeded or a file present in either canonical directory.
C5_MissingToolAllFailSameCause ==
    ~toolExists =>
        /\ Succeeded = {}
        /\ fasta_dir = {} /\ pdb_dir = {}
        /\ \A k \in Jobs : status[k] \in {"Pending", "Failed"}
        /\ \A k \in Jobs : status[k] = "Failed" => cause[k] = "executable not found"
        /\ batch = "returned" =>
              /\ Len(results) = Len(pdb_files) * Len(pdb_files)
              /\ \A k \in Jobs : status[k] = "Failed"

C5_Witness ==
    /\ ~toolExists
    /\ batch = "returned"
    /\ Len(pairs) = 4
    /\ \A k \in Jobs : status[k] = "Failed" /\ cause[k] = "executable not found"

\* C6: with no *.pdb file in the input directory run_all_vs_all returns at
\* once: no pool, no job, no process, no file in any output directory, no
\* exception, only the warning.
C6_EmptyInputReturnsCleanly ==
    (pdb_files = <<>> /\ batch # "start") =>
        /\ batch = "returned"
        /\ raised = "none"
        /\ ~poolCreated
        /\ pairs = <<>> /\ status = <<>> /\ results = <<>>
        /\ staging = {} /\ fasta_dir = {} /\ pdb_dir = {}
        /\ warnings = {"No PDB files found"}

C6_Witness ==
    /\ pdb_files = <<>>
    /\ batch = "returned"
    /\ warnings = {"No PDB files found"}

\* What holds of a Succeeded job in every state.
C7_SucceededState ==
    \A k \in Jobs : status[k] = "Succeeded" =>
        /\ outcome[k].exit = 0
        /\ fasta_dest(pairs[k]) \in fasta_dir
        /\ pdb_dest(pairs[k]) \in pdb_dir

\* How a job advances towards Succeeded: only past the existence test with
\* both files under its stem, then by moving the alignment file, then by
\* moving the coordinate file, each out of the output directory and into its
\* canonical directory under the pair identifier.
C7_SucceededStep ==
    \A k \in Jobs :
        /\ (status[k] # "MoveFasta" /\ status'[k] = "MoveFasta") =>
              /\ status[k] = "Exited"
              /\ outcome[k].exit = 0
              /\ expected_afasta(pairs[k]) \in staging
              /\ expected_pdb(pairs[k]) \in staging
        /\ (status[k] # "MovePdb" /\ status'[k] = "MovePdb") =>
              /\ status[k] = "MoveFasta"
              /\ expected_afasta(pairs[k]) \in staging
              /\ expected_afasta(pairs[k]) \notin staging'
              /\ (output_identifier(pairs[k]) \o ".fasta") \in fasta_dir'
        /\ (status[k] # "Succeeded" /\ status'[k] = "Succeeded") =>
              /\ status[k] = "MovePdb"
              /\ expected_pdb(pairs[k]) \in staging
              /\ expected_pdb(pairs[k]) \notin staging'
              /\ (output_identifier(pairs[k]) \o ".pdb") \in pdb_dir'

\* C7: a job becomes Succeeded only after its process exited 0, both files
\* existed under its output stem and both were moved into the canonical
\* directories under the pair identifier; while a job is Succeeded both of
\* its canonical files exist.
C7_StrictReconciliation == []C7_SucceededState /\ [][C7_SucceededStep]_vars

C7_Witness ==
    /\ batch = "returned"
    /\ \E k \in Jobs : status[k] = "Succeeded" /\ ToolOk(k)
    /\ \E k \in Jobs : status[k] = "Failed" /\ cause[k] = "expected output files missing"
    /\ \E k \in Jobs : status[k] = "Failed" /\ cause[k] = "MUSTANG failed"

\* The external process exited 0 and wrote the alignment file only.
ToolNoPdb(k) == outcome[k] = [exit |-> 0, aln |-> TRUE, pdb |-> FALSE]

\* C8: at the end of a batch, a job whose process exited 0 and wrote the
\* alignment file but no coordinate file is Failed, and the canonical
\* alignment directory holds no file under that job's pair identifier.
C8_NoPartialOnMissingCoordinate ==
    batch = "returned" =>
        \A k \in Jobs : ToolNoPdb(k) =>
            /\ status[k] = "Failed"
            /\ fasta_dest(pairs[k]) \notin fasta_dir

\* The extension the user asked for: the alignment_format itself.
RequestedName(p) == p[1] \o "_" \o p[2] \o "." \o alignment_format

\* C9: after a batch in which every job Succeeded, the alignment directory
\* holds exactly one file per pair, named <id1>_<id2>.<alignment_format>.
C9_AlignmentFilesNamedByFormat ==
    (batch = "returned" /\ pdb_files # <<>> /\ \A k \in Jobs : status[k] = "Succeeded") =>
        /\ fasta_dir = {RequestedName(pairs[k]) : k \in Jobs}
        /\ Count(fasta_dir) = Len(pairs)

\* C10: when the input stems are pairwise distinct, two different jobs never
\* have the same output identifier.
C10_IdentifiersUnique ==
    (\A i, j \in DOMAIN pdb_files : i # j => pdb_files[i] # pdb_files[j]) =>
        \A i, j \in Jobs : i # j => output_identifier(pairs[i]) # output_identifier(pairs[j])

\* C11: with workers that keep running and external processes that end,
\* every batch reaches the state in which each of the N*N jobs is Succeeded
\* or Failed, every result has been collected and run_all_vs_all has
\* returned without an exception.
C11_BatchCompletes ==
    <>( /\ batch = "returned"
        /\ raised = "none"
        /\ Len(results) = Len(pdb_files) * Len(pdb_files)
        /\ \A k \in Jobs : status[k] \in Terminal )

\* A finished batch holding a success and each kind of per-job failure:
\* non-zero exit, missing artifact, exception raised inside the worker.
C11_Witness ==
    /\ batch = "returned"
    /\ \E k \in Jobs : status[k] = "Succeeded"
    /\ \E k \in Jobs : status[k] = "Failed" /\ cause[k] = "MUSTANG failed"
    /\ \E k \in Jobs : status[k] = "Failed" /\ cause[k] = "expected output files missing"
    /\ \E k \in Jobs : status[k] = "Failed" /\ cause[k] = "executable not found"

\* sum of the success flags of the collected results
SuccessFlags == Count({i \in DOMAIN results : results[i]})

\* C12: when run_all_vs_all has returned from a batch whose success flags
\* sum to less than N*N, a count-mismatch warning has been logged and no
\* exception was raised.
C12_CountMismatchWarned ==
    (batch = "returned" /\ pdb_files # <<>>
        /\ SuccessFlags # Len(pdb_files) * Len(pdb_files)) =>
        /\ \E w \in warnings : w # "No PDB files found"
        /\ raised = "none"

\* mustang_analysis was called with a configuration error: a mode that is
\* neither all_vs_all nor pdb_vs_pdb, an input of the wrong shape for the
\* mode, or an input directory that does not exist.
ConfigError ==
    \/ mode \notin {"all_vs_all", "pdb_vs_pdb"}
    \/ mode = "all_vs_all" /\ input_path # "dir"
    \/ mode = "pdb_vs_pdb" /\ ~(input_path = "list" /\ Len(pdb_files) = 2)

\* C13: a call of mustang_analysis with a configuration error schedules no
\* job, and when it is over an exception has reached the caller and nothing
\* was logged in its place.
C13_ConfigErrorsPropagate ==
    ConfigError =>
        /\ pairs = <<>> /\ ~poolCreated
        /\ batch = "returned" => (raised # "none" /\ warnings = {})

\* C14: at every moment the jobs that are Succeeded are no more than the
\* jobs that have completed, which are no more than N*N (the same holds of
\* the collected flags); when the batch has returned, N*N results have been
\* collected.
C14_CountsBounded ==
    /\ Count(Succeeded) <= Count({k \in Jobs : status[k] \in Terminal})
    /\ Count({k \in Jobs : status[k] \in Terminal}) <= Len(pdb_files) * Len(pdb_files)
    /\ SuccessFlags <= Len(results)
    /\ Len(results) <= Len(pdb_files) * Len(pdb_files)
    /\ batch = "returned" => Len(results) = Len(pdb_files) * Len(pdb_files)

C14_Witness ==
    /\ batch = "returned"
    /\ Len(results) = 4
    /\ SuccessFlags = 2

\* Order of the positions of a job.
Rank(st) ==
    CASE st = "Pending" -> 0
      [] st = "Invoked" -> 1
      [] st = "Exited" -> 2
      [] st = "MoveFasta" -> 3
      [] st = "MovePdb" -> 4
      [] st \in Terminal -> 5

C15_JobStep ==
    \A k \in Jobs :
        /\ status[k] \in Terminal => status'[k] = status[k]
        /\ Rank(status'[k]) >= Rank(status[k])
        /\ (status'[k] = "Invoked" /\ status[k] # "Invoked") => status[k] = "Pending"
        /\ status[k] = "Failed" => cause'[k] = cause[k]

\* C15: a job only moves forward through Pending, Invoked (and the steps of
\* its reconciliation), Succeeded or Failed: its process is started from
\* Pending only, hence at most once, and a Succeeded or Failed job never
\* changes again.
C15_NoRetryNoReturn == [][C15_JobStep]_vars

C15_Witness ==
    /\ \E k \in Jobs : status[k] = "Failed" /\ cause[k] = "MUSTANG failed"
    /\ \E k \in Jobs : status[k] = "Failed" /\ cause[k] = "expected output files missing"
    /\ \E k \in Jobs : status[k] = "Invoked"
    /\ \E k \in Jobs : status[k] = "Succeeded"

\* Jobs whose external process exited 0 and wrote both files: the jobs that
\* succeed when each job is run on its own.
GoodRuns == {k \in Jobs : ToolOk(k)}

\* C16: the end of a batch depends on the inputs and on what the external
\* tool did for each pair only, not on the interleaving or the number of
\* workers: the canonical directories hold the files of the pairs whose tool
\* run was good, and as many success flags were collected as there are such
\* pairs.
C16_ResultIndependentOfOrder ==
    (batch = "returned" /\ pdb_files # <<>>) =>
        /\ fasta_dir = {fasta_dest(pairs[k]) : k \in GoodRuns}
        /\ pdb_dir = {pdb_dest(pairs[k]) : k \in GoodRuns}
        /\ SuccessFlags = Count(GoodRuns)

\* What holds between the jobs and the collected results in every state.
C17_OneResultPerJob ==
    /\ Len(results) = Count({k \in Jobs : status[k] \in Terminal})
    /\ SuccessFlags = Count(Succeeded)
    /\ batch = "returned" => \A k \in Jobs : status[k] \in Terminal

\* A step takes at most one job from the queue, the first one queued, adds
\* at most one result, and never puts a job back on the queue.
C17_ConsumeStep ==
    /\ Count({k \in Jobs : status[k] = "Pending" /\ status'[k] # "Pending"}) <= 1
    /\ \A k \in Jobs : (status[k] = "Pending" /\ status'[k] # "Pending") =>
           \A i \in Jobs : i < k => status[i] # "Pending"
    /\ \A k \in Jobs : status[k] # "Pending" => status'[k] # "Pending"
    /\ Len(results') <= Len(results) + 1

\* C17: every job of the batch is taken from the queue once, by one worker,
\* and yields exactly one result; when the batch has returned no job has
\* been left out.
C17_ConsumedExactlyOnce == []C17_OneResultPerJob /\ [][C17_ConsumeStep]_vars

C17_Witness ==
    /\ batch = "returned"
    /\ cpu_cores = 2
    /\ Len(results) = 4
    /\ results[1] /\ ~results[2]

\* C18: once a job is Succeeded or Failed, neither file the external tool
\* writes under that job's output stem is left in the output directory.
C18_NoTransientLeft ==
    \A k \in Jobs : status[k] \in Terminal =>
        /\ expected_afasta(pairs[k]) \notin staging
        /\ expected_pdb(pairs[k]) \notin staging

\* C19: a job is recorded with the cause "executable not found" only when
\* the executable is missing.
C19_NotFoundOnlyIfToolMissing ==
    \A k \in Jobs : cause[k] = "executable not found" => ~toolExists

\* C20: every file of the coordinate directory is the file of a pair whose
\* alignment file is in the alignment directory, and when the batch has
\* returned the coordinate directory holds as many files as jobs Succeeded.
C20_CoordinateMatchesAlignment ==
    /\ pdb_dir \subseteq {pdb_dest(pairs[k]) : k \in Jobs}
    /\ \A k \in Jobs : pdb_dest(pairs[k]) \in pdb_dir => fasta_dest(pairs[k]) \in fasta_dir
    /\ batch = "returned" => Count(Succeeded) = Cardinality(pdb_dir)

====
